---------------------------- MODULE Spec2Model ----------------------------
(***************************************************************************)
(* Fixed-point reference models of the transformer building blocks         *)
(* (softmax, layer normalisation, multi-head attention) and the            *)
(* golden-versus-hardware comparator.                                      *)
(*                                                                         *)
(* Every script of the repository is a straight-line program over its      *)
(* module globals.  `script' names the program that runs, `pc' its         *)
(* position, and `g' holds its globals under the names the source gives    *)
(* them (a global not yet assigned holds 0 or the empty sequence).         *)
(***************************************************************************)
EXTENDS Integers, Sequences, FiniteSets, TLC

VARIABLES script, pc, g

vars == <<script, pc, g>>

(***************************************************************************)
(* Bounds of the model.                                                    *)
(***************************************************************************)
\* longest generated input vector of the softmax and layernorm kernels
MaxLen == 4
\* longest generated hardware / golden trace of the comparator
MaxTrace == 3
\* lookup-table arguments range over LutSpan quantisation buckets each way
LutSpan == 20

(***************************************************************************)
(* Integer arithmetic as Python and numpy perform it.                      *)
(***************************************************************************)
Pow2(n) == 2 ^ n

\* v >> n : arithmetic shift right, i.e. floor division by 2^n
Shr(v, n) == v \div Pow2(n)

\* a // b for b > 0 : floor division
FloorDiv(a, b) == a \div b

\* max(lo, min(hi, v)) and min(hi, max(lo, v)) agree for lo <= hi
Clamp(v, lo, hi) == IF v < lo THEN lo ELSE IF v > hi THEN hi ELSE v

RECURSIVE SumSeq(_)
SumSeq(s) == IF s = <<>> THEN 0 ELSE Head(s) + SumSeq(Tail(s))

RECURSIVE MaxSeq(_)
MaxSeq(s) ==
    IF Len(s) = 1 THEN s[1]
    ELSE LET m == MaxSeq(Tail(s)) IN IF s[1] > m THEN s[1] ELSE m

\* all vectors of length 1..n over the value set S
Vectors(S, n) == UNION {[1..k -> S] : k \in 1..n}

\* smallest and largest Q8.8 value (16-bit signed)
Q88Min == -Pow2(15)
Q88Max == Pow2(15) - 1

(***************************************************************************)
(* Softmax1/softmax_golden.py : softmax variant A, power-of-two surrogate.  *)
(***************************************************************************)
\* in_vec of the source, in tenths (1.5, 0.8, -0.2, 0.1, -1.0, 0.3, 0.0, -0.5)
in_vec_tenths == <<15, 8, -2, 1, -10, 3, 0, -5>>

\* (v * 256).astype(np.int32) : the cast truncates toward zero
ToQ88(tenths) ==
    LET p == tenths * 256
    IN  IF p >= 0 THEN p \div 10 ELSE -((-p) \div 10)

in_fixed_literal == [n \in 1..Len(in_vec_tenths) |-> ToQ88(in_vec_tenths[n])]

\* Q8.8 scores the generated inputs are drawn from
SoftmaxVals == {Q88Min, -3840, -512, -256, -1, 0, Q88Max}

SoftmaxInputs == Vectors(SoftmaxVals, MaxLen) \cup {in_fixed_literal}

\* lines 20-21 : shift = (in_fixed[i] - max_val) >> 8, clamped to [-15, 0]
SA_Shift(v, m) == Clamp(Shr(v - m, 8), -15, 0)

\* line 22 : 1 << (shift + 15)
SA_ExpVal(v, m) == Pow2(SA_Shift(v, m) + 15)

\* a faulty variant of SA_OutVal: division rounding to nearest
SA_OutRound(e, s) == (e * Pow2(15) + s \div 2) \div s

\* line 27 : (exp_vals << 15) // exp_sum, one element
SA_OutVal(e, s) == FloorDiv(e * Pow2(15), s)

SA_Globals(v) ==
    [in_fixed |-> v, max_val |-> 0, exp_vals |-> <<>>, exp_sum |-> 0,
     out |-> <<>>]

InitSoftmaxA ==
    /\ script = "softmax_golden"
    /\ pc = "max"
    /\ \E v \in SoftmaxInputs : g = SA_Globals(v)

\* line 15
SA_Max ==
    /\ script = "softmax_golden" /\ pc = "max"
    /\ g' = [g EXCEPT !.max_val = MaxSeq(g.in_fixed)]
    /\ pc' = "loop"
    /\ UNCHANGED script

\* lines 19-22, one iteration : i is the number of elements already filled
SA_Loop ==
    /\ script = "softmax_golden" /\ pc = "loop"
    /\ Len(g.exp_vals) < Len(g.in_fixed)
    /\ LET i == Len(g.exp_vals) + 1
       IN  g' = [g EXCEPT !.exp_vals =
                     Append(@, SA_ExpVal(g.in_fixed[i], g.max_val))]
    /\ UNCHANGED <<script, pc>>

\* line 24
SA_Sum ==
    /\ script = "softmax_golden" /\ pc = "loop"
    /\ Len(g.exp_vals) = Len(g.in_fixed)
    /\ g' = [g EXCEPT !.exp_sum = SumSeq(g.exp_vals)]
    /\ pc' = "out"
    /\ UNCHANGED script

\* line 27
SA_Out ==
    /\ script = "softmax_golden" /\ pc = "out"
    /\ g' = [g EXCEPT !.out =
                 [n \in 1..Len(g.exp_vals) |-> SA_OutVal(g.exp_vals[n], g.exp_sum)]]
    /\ pc' = "done"
    /\ UNCHANGED script

NextSoftmaxA == SA_Max \/ SA_Loop \/ SA_Sum \/ SA_Out

SpecSoftmaxA == InitSoftmaxA /\ [][NextSoftmaxA]_vars

\* C1: when softmax variant A has finished, every output lies in [0, 32768],
\* the outputs sum to at most 32768, and the sum falls short of 32768 by
\* less than the vector length N.
C1_SoftmaxA_Range ==
    (script = "softmax_golden" /\ pc = "done") =>
        /\ Len(g.out) = Len(g.in_fixed)
        /\ \A n \in 1..Len(g.out) : g.out[n] >= 0 /\ g.out[n] <= 32768
        /\ SumSeq(g.out) <= 32768
        /\ 32768 - SumSeq(g.out) < Len(g.in_fixed)

\* the source's own input: eight outputs that sum to 32764 after truncation
C1_Witness ==
    /\ script = "softmax_golden" /\ pc = "done"
    /\ g.in_fixed = <<384, 204, -51, 25, -256, 76, 0, -128>>
    /\ g.out = <<11397, 5698, 2849, 2849, 1424, 2849, 2849, 2849>>
    /\ SumSeq(g.out) = 32764

(***************************************************************************)
(* softmax_fixed.py : softmax variant B, LUT-based exponential.            *)
(***************************************************************************)
\* lines 15-25 : the exponential table, Q0.16
ExpLutTable ==
    (0 :> 65535) @@ (-1 :> 24109) @@ (-2 :> 8869) @@ (-3 :> 3265) @@
    (-4 :> 1202) @@ (-5 :> 442) @@ (-6 :> 163) @@ (-7 :> 60) @@ (-8 :> 22)

\* faulty variants of exp_lut_idx: an index one bucket too low, and an index
\* without the lower clamp
exp_lut_idx_off(x) == Clamp(Shr(x, 8) - 1, -8, 0)
exp_lut_idx_noclamp(x) == IF Shr(x, 8) > 0 THEN 0 ELSE Shr(x, 8)

\* lines 13-14 : idx = x >> 8; idx = min(0, max(-8, idx))
exp_lut_idx(x) == Clamp(Shr(x, 8), -8, 0)

\* line 26 : lut[idx] raises KeyError for a key the dict lacks
exp_lut_raises(x) == exp_lut_idx(x) \notin DOMAIN ExpLutTable

\* line 26 : return lut[idx]
exp_lut(x) == ExpLutTable[exp_lut_idx(x)]

\* lines 7-9 : the source's input, [120, 80, ..., -160] << 8
inp_literal ==
    [n \in 1..8 |-> <<120, 80, 40, 0, -40, -80, -120, -160>>[n] * Pow2(8)]

SoftmaxBVals == {Q88Min, -2048, -256, -1, 0, 256, Q88Max}

SoftmaxBInputs == Vectors(SoftmaxBVals, MaxLen) \cup {inp_literal}

SB_Globals(v) ==
    [inp |-> v, max_val |-> 0, exp_vals |-> <<>>, sum_exp |-> 0,
     recip |-> 0, recip_branch |-> "none", out |-> <<>>]

InitSoftmaxB ==
    /\ script = "softmax_fixed"
    /\ pc = "max"
    /\ \E v \in SoftmaxBInputs : g = SB_Globals(v)

\* line 29
SB_Max ==
    /\ script = "softmax_fixed" /\ pc = "max"
    /\ g' = [g EXCEPT !.max_val = MaxSeq(g.inp)]
    /\ pc' = "exp"
    /\ UNCHANGED script

\* line 31 : the comprehension stops with KeyError if a lookup fails
SB_Exp ==
    /\ script = "softmax_fixed" /\ pc = "exp"
    /\ IF \E n \in 1..Len(g.inp) : exp_lut_raises(g.inp[n] - g.max_val)
       THEN /\ pc' = "KeyError"
            /\ g' = g
       ELSE /\ pc' = "sum"
            /\ g' = [g EXCEPT !.exp_vals =
                         [n \in 1..Len(g.inp) |-> exp_lut(g.inp[n] - g.max_val)]]
    /\ UNCHANGED script

\* line 32
SB_Sum ==
    /\ script = "softmax_fixed" /\ pc = "sum"
    /\ g' = [g EXCEPT !.sum_exp = SumSeq(g.exp_vals)]
    /\ pc' = "recip"
    /\ UNCHANGED script

\* line 34 : recip = (1 << 16) // sum_exp if sum_exp != 0 else 0
SB_Recip ==
    /\ script = "softmax_fixed" /\ pc = "recip"
    /\ IF g.sum_exp # 0
       THEN g' = [g EXCEPT !.recip = FloorDiv(Pow2(16), g.sum_exp),
                           !.recip_branch = "divide"]
       ELSE g' = [g EXCEPT !.recip = 0, !.recip_branch = "fallback"]
    /\ pc' = "out"
    /\ UNCHANGED script

\* line 35 : out = (exp_vals * recip) >> 16
SB_Out ==
    /\ script = "softmax_fixed" /\ pc = "out"
    /\ g' = [g EXCEPT !.out =
                 [n \in 1..Len(g.exp_vals) |-> Shr(g.exp_vals[n] * g.recip, 16)]]
    /\ pc' = "done"
    /\ UNCHANGED script

NextSoftmaxB == SB_Max \/ SB_Exp \/ SB_Sum \/ SB_Recip \/ SB_Out

SpecSoftmaxB == InitSoftmaxB /\ [][NextSoftmaxB]_vars

\* position of the (first) maximum of a vector
ArgMax(s) == CHOOSE n \in 1..Len(s) : s[n] = MaxSeq(s)

\* C2: when softmax variant B has finished, the output at the position of
\* the maximum input is strictly positive, the outputs sum to a value in
\* [2^15, 2^16], and the output is never the all-zero vector.
C2_SoftmaxB_Normalized ==
    (script = "softmax_fixed" /\ pc = "done") =>
        /\ g.out[ArgMax(g.inp)] > 0
        /\ SumSeq(g.out) >= Pow2(15)
        /\ SumSeq(g.out) <= Pow2(16)
        /\ \E n \in 1..Len(g.out) : g.out[n] # 0

\* C10: in softmax variant B the sum of exponentials is at least 65535 (the
\* maximum element contributes the table's largest value, found at index 0),
\* so the reciprocal is always computed by the division and the `sum == 0'
\* fallback is never taken.
C10_SumExpPositive ==
    script = "softmax_fixed" =>
        /\ pc # "KeyError"
        /\ pc \in {"sum", "recip", "out", "done"} =>
              /\ g.exp_vals[ArgMax(g.inp)] = 65535
              /\ \A k \in DOMAIN ExpLutTable : ExpLutTable[k] <= 65535
        /\ pc \in {"recip", "out", "done"} => g.sum_exp >= 65535
        /\ g.recip_branch # "fallback"

\* the source's input after the reciprocal: sum 65689, taken by the division
C10_Witness ==
    /\ script = "softmax_fixed" /\ pc = "out"
    /\ g.inp = inp_literal
    /\ g.exp_vals = <<65535, 22, 22, 22, 22, 22, 22, 22>>
    /\ g.sum_exp = 65689
    /\ g.recip_branch = "divide"

(***************************************************************************)
(* layernorm/layernorm_fixed.py : mean, variance, LUT reciprocal square     *)
(* root.                                                                   *)
(*                                                                         *)
(* A square or a product of the kernel can exceed 31 bits, so such a       *)
(* number is carried as the pair <<hi, lo>> that stands for                *)
(* hi * 2^16 + lo with 0 <= lo < 2^16.                                     *)
(***************************************************************************)
\* hi * 2^16 + s, normalised so that 0 <= lo < 2^16
WNorm(hi, s) == <<hi + (s \div 65536), s % 65536>>

\* a * b for |a|, |b| <= 2^16
RECURSIVE WMul(_, _)
WMul(a, b) ==
    IF b < 0 THEN WMul(-a, -b)
    ELSE LET p == a * (b \div 256)
             q == a * (b % 256)
         IN  WNorm(p \div 256, (p % 256) * 256 + q)

WAdd(u, v) == WNorm(u[1] + v[1], u[2] + v[2])

RECURSIVE WSum(_)
WSum(s) == IF s = <<>> THEN <<0, 0>> ELSE WAdd(Head(s), WSum(Tail(s)))

\* w // n for 0 < n < 2^15
WFloorDiv(w, n) == <<w[1] \div n, ((w[1] % n) * 65536 + w[2]) \div n>>

\* w >> 16
WShr16(w) == w[1]

\* the low 32 bits of w read as a signed int32: what a numpy int32 array
\* keeps of an element that overflows
WWrap32(w) == <<((w[1] + 32768) % 65536) - 32768, w[2]>>

\* An int32 array combined with the np.int64 scalar `mean' is an int64 array
\* under numpy's NEP 50 promotion (numpy >= 2) and stays an int32 array under
\* the value-based promotion of numpy 1.x; the script pins neither.
ArrayInt(w, promote64) == IF promote64 THEN w ELSE WWrap32(w)

\* lines 19-24 : the reciprocal-square-root table, Q0.16
RsqrtLutTable ==
    (1 :> 65535) @@ (2 :> 46340) @@ (3 :> 37837) @@ (4 :> 32768) @@
    (5 :> 29309) @@ (6 :> 26755) @@ (7 :> 24606) @@ (8 :> 23170) @@
    (9 :> 21845) @@ (10 :> 20724) @@ (11 :> 19727) @@ (12 :> 18868) @@
    (13 :> 18096) @@ (14 :> 17476) @@ (15 :> 16861) @@ (16 :> 16384)

\* lines 17-18 : idx = var >> 12; idx = max(1, min(16, idx))
rsqrt_lut_idx(v) == Clamp(Shr(v, 12), 1, 16)

\* line 25 : lut[idx] raises KeyError for a key the dict lacks
rsqrt_lut_raises(v) == rsqrt_lut_idx(v) \notin DOMAIN RsqrtLutTable

\* line 25 : return lut[idx]
rsqrt_lut(v) == RsqrtLutTable[rsqrt_lut_idx(v)]

\* line 6 : the source's input, [10, 20, ..., 80] << 8
x_literal == [n \in 1..8 |-> (10 * n) * Pow2(8)]

LayerNormVals == {Q88Min, -1, 0, 2560, Q88Max}

LayerNormInputs == Vectors(LayerNormVals, MaxLen) \cup {x_literal}

\* line 13, one element of diff * diff
LN_Square(d, promote64) == ArrayInt(WMul(d, d), promote64)

\* line 30, one element of ((x - mean) * inv_std) >> 16
LN_NormVal(d, inv, promote64) == WShr16(ArrayInt(WMul(d, inv), promote64))

LN_Globals(v, p) ==
    [x |-> v, promote64 |-> p, mean |-> 0, diff |-> <<>>, var |-> <<0, 0>>,
     idx |-> 0, inv_std |-> 0, y |-> <<>>]

InitLayerNorm ==
    /\ script = "layernorm_fixed"
    /\ pc = "mean"
    /\ \E v \in LayerNormInputs, p \in BOOLEAN : g = LN_Globals(v, p)

\* line 9 : mean = np.sum(x) // LEN
LN_Mean ==
    /\ script = "layernorm_fixed" /\ pc = "mean"
    /\ g' = [g EXCEPT !.mean = FloorDiv(SumSeq(g.x), Len(g.x))]
    /\ pc' = "diff"
    /\ UNCHANGED script

\* line 12 : diff = x - mean (|diff| < 2^16 fits either width)
LN_Diff ==
    /\ script = "layernorm_fixed" /\ pc = "diff"
    /\ g' = [g EXCEPT !.diff = [n \in 1..Len(g.x) |-> g.x[n] - g.mean]]
    /\ pc' = "var"
    /\ UNCHANGED script

\* line 13 : var = np.sum(diff * diff) // LEN (np.sum accumulates in int64)
LN_Var ==
    /\ script = "layernorm_fixed" /\ pc = "var"
    /\ LET sq == [n \in 1..Len(g.diff) |-> LN_Square(g.diff[n], g.promote64)]
       IN  g' = [g EXCEPT !.var = WFloorDiv(WSum(sq), Len(g.x))]
    /\ pc' = "rsqrt"
    /\ UNCHANGED script

\* line 27 : inv_std = rsqrt_lut(var >> 16), with the body of lines 16-25
LN_Rsqrt ==
    /\ script = "layernorm_fixed" /\ pc = "rsqrt"
    /\ LET arg == WShr16(g.var)
       IN  IF rsqrt_lut_raises(arg)
           THEN /\ pc' = "KeyError"
                /\ g' = g
           ELSE /\ pc' = "norm"
                /\ g' = [g EXCEPT !.idx = rsqrt_lut_idx(arg),
                                  !.inv_std = rsqrt_lut(arg)]
    /\ UNCHANGED script

\* line 30 : y = ((x - mean) * inv_std) >> 16
LN_Norm ==
    /\ script = "layernorm_fixed" /\ pc = "norm"
    /\ g' = [g EXCEPT !.y =
                 [n \in 1..Len(g.x) |->
                     LN_NormVal(g.x[n] - g.mean, g.inv_std, g.promote64)]]
    /\ pc' = "done"
    /\ UNCHANGED script

NextLayerNorm == LN_Mean \/ LN_Diff \/ LN_Var \/ LN_Rsqrt \/ LN_Norm

SpecLayerNorm == InitLayerNorm /\ [][NextLayerNorm]_vars

\* C3: LayerNorm takes inv_std from the table at index clamp(var >> 16, 1, 16);
\* for the input [10, 20, ..., 80] << 8 (var >> 16 = 525) the index is 16 and
\* inv_std is 16384.
C3_RsqrtIndex ==
    (script = "layernorm_fixed" /\ pc \in {"norm", "done"}) =>
        /\ g.idx = Clamp(WShr16(g.var), 1, 16)
        /\ g.inv_std = RsqrtLutTable[Clamp(WShr16(g.var), 1, 16)]
        /\ g.x = x_literal =>
              WShr16(g.var) = 525 /\ g.idx = 16 /\ g.inv_std = 16384

\* C4: LayerNorm preserves the order of its input: x_i <= x_j implies
\* y_i <= y_j for every pair of positions.
C4_OrderPreserved ==
    (script = "layernorm_fixed" /\ pc = "done") =>
        \A i, j \in 1..Len(g.x) : g.x[i] <= g.x[j] => g.y[i] <= g.y[j]

(***************************************************************************)
(* The two lookup functions on their own: exp_lut of softmax_fixed.py and   *)
(* rsqrt_lut of layernorm_fixed.py, called with an arbitrary integer.       *)
(***************************************************************************)
\* every integer LutSpan buckets of 2^8 each way, and the int32 extremes
ExpLutArgs ==
    ((-LutSpan * 256) .. (LutSpan * 256)) \cup {-2147483647 - 1, 2147483647}

\* every 1024th integer LutSpan buckets of 2^12 each way, the bucket
\* boundaries, and the int32 extremes
RsqrtLutArgs ==
    {k * 1024 : k \in (-LutSpan * 4) .. (LutSpan * 4)}
        \cup {k * 4096 - 1 : k \in (-LutSpan) .. LutSpan}
        \cup {-2147483647 - 1, 2147483647}

LK_Globals(f, a) == [fn |-> f, arg |-> a, idx |-> 0, ret |-> 0]

InitLut ==
    /\ script = "lut"
    /\ pc = "call"
    /\ \/ \E a \in ExpLutArgs : g = LK_Globals("exp_lut", a)
       \/ \E a \in RsqrtLutArgs : g = LK_Globals("rsqrt_lut", a)

\* softmax_fixed.py lines 12-26
LK_exp_lut ==
    /\ script = "lut" /\ pc = "call" /\ g.fn = "exp_lut"
    /\ IF exp_lut_raises(g.arg)
       THEN /\ pc' = "KeyError"
            /\ g' = [g EXCEPT !.idx = exp_lut_idx(g.arg)]
       ELSE /\ pc' = "return"
            /\ g' = [g EXCEPT !.idx = exp_lut_idx(g.arg), !.ret = exp_lut(g.arg)]
    /\ UNCHANGED script

\* layernorm_fixed.py lines 16-25
LK_rsqrt_lut ==
    /\ script = "lut" /\ pc = "call" /\ g.fn = "rsqrt_lut"
    /\ IF rsqrt_lut_raises(g.arg)
       THEN /\ pc' = "KeyError"
            /\ g' = [g EXCEPT !.idx = rsqrt_lut_idx(g.arg)]
       ELSE /\ pc' = "return"
            /\ g' = [g EXCEPT !.idx = rsqrt_lut_idx(g.arg),
                              !.ret = rsqrt_lut(g.arg)]
    /\ UNCHANGED script

NextLut == LK_exp_lut \/ LK_rsqrt_lut

SpecLut == InitLut /\ [][NextLut]_vars

\* C9: both lookups are total under clamping.  exp_lut uses a key in [-8, 0]
\* and rsqrt_lut a key in [1, 16], each present in its table, so no lookup
\* fails; an argument that quantises below the smallest key returns the
\* smallest key's value, one that quantises above the largest key returns
\* the largest key's value; rsqrt_lut of zero variance returns the index-1
\* value 65535, the largest reciprocal of the table.
C9_LutTotal ==
    (script = "lut" /\ pc # "call") =>
        /\ pc = "return"
        /\ g.fn = "exp_lut" =>
              /\ g.idx \in -8..0 /\ g.idx \in DOMAIN ExpLutTable
              /\ g.ret = ExpLutTable[g.idx]
              /\ Shr(g.arg, 8) < -8 => g.ret = ExpLutTable[-8]
              /\ Shr(g.arg, 8) > 0 => g.ret = ExpLutTable[0]
        /\ g.fn = "rsqrt_lut" =>
              /\ g.idx \in 1..16 /\ g.idx \in DOMAIN RsqrtLutTable
              /\ g.ret = RsqrtLutTable[g.idx]
              /\ Shr(g.arg, 12) < 1 => g.ret = RsqrtLutTable[1]
              /\ Shr(g.arg, 12) > 16 => g.ret = RsqrtLutTable[16]
              /\ g.arg = 0 =>
                    /\ g.idx = 1 /\ g.ret = 65535
                    /\ \A k \in DOMAIN RsqrtLutTable : RsqrtLutTable[k] <= g.ret

\* exp_lut called far below its smallest key returns the value of key -8
C9_Witness ==
    /\ script = "lut" /\ pc = "return"
    /\ g.fn = "exp_lut" /\ g.arg = -9 * 256 - 1
    /\ g.idx = -8 /\ g.ret = 22

(***************************************************************************)
(* transformer_golden.py : multi-head attention with identity projections,  *)
(* identity feed-forward, residual sum, and the golden file.               *)
(***************************************************************************)
SEQ_LEN == 4
EMBED_DIM == 8
HEADS == 2
HEAD_DIM == EMBED_DIM \div HEADS

\* the shift of line 31
SCALE_SHIFT == 6

Rows == 0 .. (SEQ_LEN - 1)
Cols == 0 .. (EMBED_DIM - 1)

\* np.zeros((SEQ_LEN, EMBED_DIM)) and np.zeros_like(x)
Zeros == [i \in Rows |-> [j \in Cols |-> 0]]

\* a faulty variant of TG_Scaled: a shift one bit short
TG_ScaledHalf(dot) == Shr(dot, SCALE_SHIFT - 1)

\* line 31 : dot >> 6
TG_Scaled(dot) == Shr(dot, SCALE_SHIFT)

TG_Globals ==
    [x |-> Zeros, Q |-> Zeros, K |-> Zeros, V |-> Zeros, attn_out |-> Zeros,
     ffn_out |-> Zeros, y |-> Zeros, h |-> 0, i |-> 0, d |-> 0, j |-> 0,
     k |-> 0, acc |-> 0, dot |-> 0, file |-> <<>>]

InitAttention ==
    /\ script = "transformer_golden"
    /\ pc = "input"
    /\ g = TG_Globals

\* lines 10-13 : x[i,j] = (i+1)*(j+2)
TG_Input ==
    /\ script = "transformer_golden" /\ pc = "input"
    /\ g' = [g EXCEPT !.x = [i \in Rows |-> [j \in Cols |-> (i + 1) * (j + 2)]]]
    /\ pc' = "project"
    /\ UNCHANGED script

\* lines 16-21 : Q, K, V are copies of x; attn_out is zero; the loops start
TG_Project ==
    /\ script = "transformer_golden" /\ pc = "project"
    /\ g' = [g EXCEPT !.Q = g.x, !.K = g.x, !.V = g.x, !.attn_out = Zeros,
                      !.h = 0, !.i = 0, !.d = 0, !.j = 0, !.k = 0,
                      !.acc = 0, !.dot = 0]
    /\ pc' = "attention"
    /\ UNCHANGED script

\* lines 29-30 : one iteration of the k loop
TG_Dot ==
    /\ script = "transformer_golden" /\ pc = "attention"
    /\ g.j < SEQ_LEN /\ g.k < HEAD_DIM
    /\ g' = [g EXCEPT !.dot = @ + g.Q[g.i][g.h * HEAD_DIM + g.k]
                                  * g.K[g.j][g.h * HEAD_DIM + g.k],
                      !.k = @ + 1]
    /\ UNCHANGED <<script, pc>>

\* line 31, then lines 27-28 of the next iteration of the j loop
TG_Acc ==
    /\ script = "transformer_golden" /\ pc = "attention"
    /\ g.j < SEQ_LEN /\ g.k = HEAD_DIM
    /\ g' = [g EXCEPT !.acc = @ + TG_Scaled(g.dot)
                                  * g.V[g.j][g.h * HEAD_DIM + g.d],
                      !.j = @ + 1, !.dot = 0, !.k = 0]
    /\ UNCHANGED <<script, pc>>

\* line 32, then the next (h, i, d) of lines 23-26, or the end of the loops
TG_Store ==
    /\ script = "transformer_golden" /\ pc = "attention"
    /\ g.j = SEQ_LEN
    /\ LET stored == [g EXCEPT !.attn_out[g.i][g.h * HEAD_DIM + g.d] = g.acc,
                               !.acc = 0, !.j = 0]
       IN  IF g.d + 1 < HEAD_DIM
           THEN g' = [stored EXCEPT !.d = g.d + 1] /\ pc' = pc
           ELSE IF g.i + 1 < SEQ_LEN
           THEN g' = [stored EXCEPT !.d = 0, !.i = g.i + 1] /\ pc' = pc
           ELSE IF g.h + 1 < HEADS
           THEN g' = [stored EXCEPT !.d = 0, !.i = 0, !.h = g.h + 1] /\ pc' = pc
           ELSE g' = stored /\ pc' = "ffn"
    /\ UNCHANGED script

\* line 35 : ffn_out = attn_out.copy()
TG_FFN ==
    /\ script = "transformer_golden" /\ pc = "ffn"
    /\ g' = [g EXCEPT !.ffn_out = g.attn_out]
    /\ pc' = "residual"
    /\ UNCHANGED script

\* line 38 : y = x + attn_out + ffn_out
TG_Residual ==
    /\ script = "transformer_golden" /\ pc = "residual"
    /\ g' = [g EXCEPT !.y = [i \in Rows |-> [j \in Cols |->
                                g.x[i][j] + g.attn_out[i][j] + g.ffn_out[i][j]]],
                      !.i = 0, !.j = 0]
    /\ pc' = "write"
    /\ UNCHANGED script

\* lines 41-44 : one f.write of the nested loops
TG_Write ==
    /\ script = "transformer_golden" /\ pc = "write"
    /\ g.i < SEQ_LEN
    /\ LET written == [g EXCEPT !.file = Append(@, g.y[g.i][g.j])]
       IN  IF g.j + 1 < EMBED_DIM
           THEN g' = [written EXCEPT !.j = g.j + 1] /\ pc' = pc
           ELSE IF g.i + 1 < SEQ_LEN
           THEN g' = [written EXCEPT !.j = 0, !.i = g.i + 1] /\ pc' = pc
           ELSE g' = [written EXCEPT !.j = 0, !.i = g.i + 1] /\ pc' = "done"
    /\ UNCHANGED script

NextAttention ==
    \/ TG_Input \/ TG_Project \/ TG_Dot \/ TG_Acc \/ TG_Store
    \/ TG_FFN \/ TG_Residual \/ TG_Write

SpecAttention == InitAttention /\ [][NextAttention]_vars

\* sum of f[0] .. f[n-1]
RECURSIVE SumFn(_, _)
SumFn(f, n) == IF n = 0 THEN 0 ELSE f[n - 1] + SumFn(f, n - 1)

\* sum over k of Q[i, h*HEAD_DIM+k] * K[j, h*HEAD_DIM+k]
C5_Score(hh, ii, jj) ==
    SumFn([kk \in 0 .. (HEAD_DIM - 1) |->
              g.Q[ii][hh * HEAD_DIM + kk] * g.K[jj][hh * HEAD_DIM + kk]],
          HEAD_DIM)

\* sum over j of (score >> 6) * V[j, h*HEAD_DIM+d]
C5_Attn(hh, ii, dd) ==
    SumFn([jj \in Rows |->
              (C5_Score(hh, ii, jj) \div 64) * g.V[jj][hh * HEAD_DIM + dd]],
          SEQ_LEN)

\* C5: with SEQ_LEN = 4, EMBED_DIM = 8, HEADS = 2 and Q = K = V = x,
\* x[i,j] = (i+1)*(j+2), when the script has finished attn_out[i, h*HEAD_DIM+d]
\* is the sum over j of ((sum over k of Q*K) >> 6) * V with no normalisation,
\* ffn_out equals attn_out, y = x + attn_out + ffn_out, and the file holds the
\* SEQ_LEN*EMBED_DIM values of y in row-major order.
C5_AttentionResidual ==
    (script = "transformer_golden" /\ pc = "done") =>
        /\ SEQ_LEN = 4 /\ EMBED_DIM = 8 /\ HEADS = 2 /\ HEAD_DIM = 4
        /\ \A i \in Rows, j \in Cols : g.x[i][j] = (i + 1) * (j + 2)
        /\ g.Q = g.x /\ g.K = g.x /\ g.V = g.x
        /\ \A hh \in 0 .. (HEADS - 1), ii \in Rows, dd \in 0 .. (HEAD_DIM - 1) :
              g.attn_out[ii][hh * HEAD_DIM + dd] = C5_Attn(hh, ii, dd)
        /\ g.ffn_out = g.attn_out
        /\ \A i \in Rows, j \in Cols :
              g.y[i][j] = g.x[i][j] + g.attn_out[i][j] + g.ffn_out[i][j]
        /\ Len(g.file) = SEQ_LEN * EMBED_DIM
        /\ \A i \in Rows, j \in Cols : g.file[i * EMBED_DIM + j + 1] = g.y[i][j]

\* the finished run: the first and the last row of the golden file
C5_Witness ==
    /\ script = "transformer_golden" /\ pc = "done"
    /\ SubSeq(g.file, 1, 8) = <<82, 123, 164, 205, 1242, 1449, 1656, 1863>>
    /\ SubSeq(g.file, 25, 32) = <<396, 594, 792, 990, 5148, 6006, 6864, 7722>>

(***************************************************************************)
(* compare.py : the golden-versus-hardware comparator.                     *)
(***************************************************************************)
\* the values the lines of a generated trace file are drawn from
TraceVals == {0, 1, 2}

\* a trace file: zero to MaxTrace lines, one integer each
TraceFiles == {<<>>} \cup Vectors(TraceVals, MaxTrace)

\* lines 1-2 : np.loadtxt(file, dtype=np.int64).  A file of one value loads
\* as a 0-d array (shape ()), any other as a 1-d array of its lines.
LoadTxt(lines) ==
    [shape |-> IF Len(lines) = 1 THEN <<>> ELSE <<Len(lines)>>, data |-> lines]

\* faulty variants of array_equal: a comparison within a tolerance of 1, and
\* a comparison of the common prefix only
array_equal_tolerant(a1, a2) ==
    /\ a1.shape = a2.shape
    /\ \A n \in 1..Len(a1.data) :
          a1.data[n] - a2.data[n] \in -1..1
array_equal_prefix(a1, a2) ==
    \A n \in 1..Len(a1.data) :
        n <= Len(a2.data) => a1.data[n] = a2.data[n]

\* line 4 : np.array_equal(a1, a2): False when the shapes differ, otherwise
\* whether a1 == a2 holds at every element
array_equal(a1, a2) ==
    /\ a1.shape = a2.shape
    /\ \A n \in 1..Len(a1.data) : a1.data[n] = a2.data[n]

\* the messages of lines 5 and 7 (without their leading emoji)
PassMsg == "PASS: RTL matches Python golden"
FailMsg == "FAIL: Mismatch detected"

\* line 5 : the arguments of the print call of the if branch
CMP_PassOutput == << <<PassMsg>> >>

\* a faulty variant of CMP_FailOutput: the two arrays exchanged
CMP_FailOutputSwapped(rtl, gold) ==
    << <<FailMsg>>, <<"RTL :", gold>>, <<"GOLD:", rtl>> >>

\* lines 7-9 : the arguments of the three print calls of the else branch
CMP_FailOutput(rtl, gold) == << <<FailMsg>>, <<"RTL :", rtl>>, <<"GOLD:", gold>> >>

\* lines 4-9 : everything the script prints for the two loaded arrays
CMP_Output(rtl, gold) ==
    IF array_equal(rtl, gold) THEN CMP_PassOutput ELSE CMP_FailOutput(rtl, gold)

CMP_Globals(r, gd) ==
    [rtl_file |-> r, gold_file |-> gd, rtl |-> LoadTxt(<<>>),
     gold |-> LoadTxt(<<>>), stdout |-> <<>>]

InitCompare ==
    /\ script = "compare"
    /\ pc = "load_rtl"
    /\ \E r \in TraceFiles, gd \in TraceFiles : g = CMP_Globals(r, gd)

\* line 1
CMP_LoadRtl ==
    /\ script = "compare" /\ pc = "load_rtl"
    /\ g' = [g EXCEPT !.rtl = LoadTxt(g.rtl_file)]
    /\ pc' = "load_gold"
    /\ UNCHANGED script

\* line 2
CMP_LoadGold ==
    /\ script = "compare" /\ pc = "load_gold"
    /\ g' = [g EXCEPT !.gold = LoadTxt(g.gold_file)]
    /\ pc' = "check"
    /\ UNCHANGED script

\* lines 4-5
CMP_Pass ==
    /\ script = "compare" /\ pc = "check"
    /\ array_equal(g.rtl, g.gold)
    /\ g' = [g EXCEPT !.stdout = CMP_Output(g.rtl, g.gold)]
    /\ pc' = "done"
    /\ UNCHANGED script

\* lines 4, 6-9
CMP_Fail ==
    /\ script = "compare" /\ pc = "check"
    /\ ~array_equal(g.rtl, g.gold)
    /\ g' = [g EXCEPT !.stdout = CMP_Output(g.rtl, g.gold)]
    /\ pc' = "done"
    /\ UNCHANGED script

NextCompare == CMP_LoadRtl \/ CMP_LoadGold \/ CMP_Pass \/ CMP_Fail

SpecCompare == InitCompare /\ [][NextCompare]_vars

\* the indicator the run printed: the first argument of the first print
Verdict == g.stdout[1][1]

\* the two traces agree at every index (of traces of equal length)
SameAtEveryIndex ==
    \A n \in 1..Len(g.rtl_file) : g.rtl_file[n] = g.gold_file[n]

\* the first index (from 1) at which two traces of equal length differ
FirstDiff ==
    CHOOSE n \in 1..Len(g.rtl_file) :
        /\ g.rtl_file[n] # g.gold_file[n]
        /\ \A m \in 1..(n - 1) : g.rtl_file[m] = g.gold_file[m]

\* C6: for traces of equal length the comparator prints PASS if and only if
\* they are equal at every index, and FAIL otherwise; no tolerance is applied.
C6_BitExact ==
    (script = "compare" /\ pc = "done" /\ Len(g.rtl_file) = Len(g.gold_file)) =>
        /\ Verdict \in {PassMsg, FailMsg}
        /\ Verdict = PassMsg <=> SameAtEveryIndex

\* traces that differ by one at their last position only: FAIL
C6_Witness ==
    /\ script = "compare" /\ pc = "done"
    /\ g.rtl_file = <<2, 0, 1>> /\ g.gold_file = <<2, 0, 2>>
    /\ Verdict = FailMsg

\* C7 as stated: when traces of equal length differ, the FAIL result reports
\* the first index at which they differ together with the hardware value and
\* the golden value at that index (the index counted from 0 or from 1).
C7_ReportsFirstMismatch ==
    (/\ script = "compare" /\ pc = "done"
     /\ Len(g.rtl_file) = Len(g.gold_file) /\ ~SameAtEveryIndex) =>
        /\ Verdict = FailMsg
        /\ \E n \in 1..Len(g.stdout) :
              /\ Len(g.stdout[n]) = 4
              /\ g.stdout[n][2] \in {FirstDiff, FirstDiff - 1}
              /\ g.stdout[n][3] = g.rtl_file[FirstDiff]
              /\ g.stdout[n][4] = g.gold_file[FirstDiff]

\* C7 amended: when traces of equal length differ, the comparator prints the
\* FAIL indicator, then the whole hardware array, then the whole golden array,
\* and nothing else: no index and no single pair of values is reported.
C7_FailPrintsBothArrays ==
    (/\ script = "compare" /\ pc = "done"
     /\ Len(g.rtl_file) = Len(g.gold_file) /\ ~SameAtEveryIndex) =>
        /\ Len(g.stdout) = 3
        /\ g.stdout[1] = <<FailMsg>>
        /\ g.stdout[2] = <<"RTL :", LoadTxt(g.rtl_file)>>
        /\ g.stdout[3] = <<"GOLD:", LoadTxt(g.gold_file)>>

\* traces that first differ at their second of three positions
C7_Witness ==
    /\ script = "compare" /\ pc = "done"
    /\ g.rtl_file = <<1, 2, 0>> /\ g.gold_file = <<1, 0, 2>>
    /\ FirstDiff = 2
    /\ Len(g.stdout) = 3

\* the indicators the comparator prints for some two traces of equal length
\* that differ in a value
ValueMismatchVerdicts ==
    {CMP_Output(LoadTxt(a), LoadTxt(b))[1][1] :
        <<a, b>> \in {p \in TraceFiles \X TraceFiles :
                        /\ Len(p[1]) = Len(p[2])
                        /\ p[1] # p[2]}}

\* C8 as stated: when the traces differ in length the comparator reports an
\* outcome that is not PASS and is distinguishable from the outcome of a
\* value mismatch.
C8_LengthMismatchDistinct ==
    (script = "compare" /\ pc = "done" /\ Len(g.rtl_file) # Len(g.gold_file)) =>
        /\ Verdict # PassMsg
        /\ Verdict \notin ValueMismatchVerdicts

\* C8 amended: when the traces differ in length the comparator never prints
\* PASS, also when the shorter trace is a prefix of the longer; it prints the
\* same FAIL indicator as for a value mismatch, followed by the two whole
\* arrays.
C8_LengthMismatchFails ==
    (script = "compare" /\ pc = "done" /\ Len(g.rtl_file) # Len(g.gold_file)) =>
        /\ Verdict = FailMsg
        /\ Verdict \in ValueMismatchVerdicts
        /\ g.stdout = CMP_FailOutput(LoadTxt(g.rtl_file), LoadTxt(g.gold_file))

\* a hardware trace that is a proper prefix of the golden trace: FAIL
C8_Witness ==
    /\ script = "compare" /\ pc = "done"
    /\ g.rtl_file = <<1, 2>> /\ g.gold_file = <<1, 2, 0>>
    /\ Verdict = FailMsg

=============================================================================
